---- MODULE Spec2Model ----
(***************************************************************************)
(* Model of limits-manager.js: the free-plan usage gate.                   *)
(*                                                                         *)
(* The Firestore database is the variable `db` (three collections, each a  *)
(* bag of documents).  The wall clock is `clock`, in milliseconds of a     *)
(* scaled-down calendar; every handler reads it with `new Date()` after it *)
(* has advanced by some amount since the previous event.  Callers are      *)
(* `granted`, the bag of actions that canUserPerformAction allowed and     *)
(* whose caller has not yet created its document.  `last` is the most      *)
(* recent call of the module and what it gave back, kept until the next    *)
(* write to the database.                                                  *)
(* A handler is one atomic step: all reads of one call see one snapshot.   *)
(***************************************************************************)
EXTENDS Integers, Sequences, FiniteSets, Bags, TLC

VARIABLES db, clock, granted, last, commits

vars == <<db, clock, granted, last, commits>>

----------------------------------------------------------------------------
(* Bounds of the model *)

MsPerSec == 2
NsPerMs == 2
MsPerDay == 2
DaysPerMonth == 2
MonthsPerYear == 2
MaxAdvance == 1
MaxCommits == 2
NumSessions == 2

MsPerMonth == MsPerDay * DaysPerMonth
MsPerYear == MsPerMonth * MonthsPerYear
InitClock == MsPerMonth - 1
MaxTime == MsPerMonth + 1

Users == {"u1", "u2"}
Callers == {"u1"}
Actions == {"upload_material", "take_quiz", "ai_writing", "generate_questions", "other_action"}
Collections == {"study_materials", "quiz_results", "ai_writings"}
BackendStates == {{}, Collections}
FailureSets == {{}} \cup {{c} : c \in Collections}

----------------------------------------------------------------------------
(* Constants of the module *)

FREE_LIMITS ==
    [studyMaterials |-> 3, quizzesPerMonth |-> 5,
     aiWritingsPerDay |-> 1, questionsPerMaterial |-> 5]

----------------------------------------------------------------------------
(* Date and Timestamp *)

getFullYear(t) == t \div MsPerYear
getMonth(t) == (t % MsPerYear) \div MsPerMonth
getDate(t) == ((t % MsPerMonth) \div MsPerDay) + 1

\* new Date(year, monthIndex, day): local midnight of that day
NewDate(y, m, d) == y * MsPerYear + m * MsPerMonth + (d - 1) * MsPerDay

TimestampFromDate(t) ==
    [seconds |-> t \div MsPerSec, nanoseconds |-> (t % MsPerSec) * NsPerMs]

\* a strict comparison in place of '>='
TimestampGT(a, b) ==
    \/ a.seconds > b.seconds
    \/ a.seconds = b.seconds /\ a.nanoseconds > b.nanoseconds

\* the order Firestore uses for where(field, '>=', timestamp)
TimestampGE(a, b) ==
    \/ a.seconds > b.seconds
    \/ a.seconds = b.seconds /\ a.nanoseconds >= b.nanoseconds

----------------------------------------------------------------------------
(* Firestore queries *)

\* getDocs(q) for a query q over collection(db, name), given as the set of
\* documents its where clauses select
GetDocs(store, name, q) ==
    LET coll == store[name]
    IN  [d \in q |-> coll[d]]

SnapshotSize(snapshot) == BagCardinality(snapshot)

Returned(v, qs) == [outcome |-> "returned", value |-> v, queries |-> qs]
Threw(qs) == [outcome |-> "threw", value |-> [error |-> "getDocs"], queries |-> qs]

----------------------------------------------------------------------------
(* The module's functions.  `fails` is the set of collections whose query  *)
(* the backend rejects during this call.                                   *)

getUserPlan(userId) == "free"

\* checkMaterialLimit comparing with '>' in place of '>='
checkMaterialLimit_strict(store, userId, fails) ==
    LET q == {d \in DOMAIN store["study_materials"] : d.userId = userId}
        count == SnapshotSize(GetDocs(store, "study_materials", q))
        limit == FREE_LIMITS.studyMaterials
    IN  IF "study_materials" \in fails THEN Threw(<<"study_materials">>)
        ELSE IF count > limit
        THEN Returned([allowed |-> FALSE,
                       reason |-> <<"You've reached the free plan limit of", limit,
                                    "study materials.">>,
                       current |-> count, limit |-> limit,
                       upgradeMessage |-> "Upgrade to Starter or Pro for more materials"],
                      <<"study_materials">>)
        ELSE Returned([allowed |-> TRUE, current |-> count, limit |-> limit,
                       remaining |-> limit - count],
                      <<"study_materials">>)

\* checkMaterialLimit catching the failed query and allowing
checkMaterialLimit_failOpen(store, userId, fails) ==
    LET q == {d \in DOMAIN store["study_materials"] : d.userId = userId}
        count == SnapshotSize(GetDocs(store, "study_materials", q))
        limit == FREE_LIMITS.studyMaterials
    IN  IF "study_materials" \in fails
        THEN Returned([allowed |-> TRUE], <<"study_materials">>)
        ELSE IF count >= limit
        THEN Returned([allowed |-> FALSE,
                       reason |-> <<"You've reached the free plan limit of", limit,
                                    "study materials.">>,
                       current |-> count, limit |-> limit,
                       upgradeMessage |-> "Upgrade to Starter or Pro for more materials"],
                      <<"study_materials">>)
        ELSE Returned([allowed |-> TRUE, current |-> count, limit |-> limit,
                       remaining |-> limit - count],
                      <<"study_materials">>)

\* checkMaterialLimit reading a count that is always 0
checkMaterialLimit_zeroCount(store, userId, fails) ==
    LET q == {d \in DOMAIN store["study_materials"] : d.userId = userId}
        count == 0
        limit == FREE_LIMITS.studyMaterials
    IN  IF "study_materials" \in fails THEN Threw(<<"study_materials">>)
        ELSE IF count >= limit
        THEN Returned([allowed |-> FALSE,
                       reason |-> <<"You've reached the free plan limit of", limit,
                                    "study materials.">>,
                       current |-> count, limit |-> limit,
                       upgradeMessage |-> "Upgrade to Starter or Pro for more materials"],
                      <<"study_materials">>)
        ELSE Returned([allowed |-> TRUE, current |-> count, limit |-> limit,
                       remaining |-> limit - count],
                      <<"study_materials">>)

\* checkMaterialLimit without the where('userId', '==', userId) filter
checkMaterialLimit_allUsers(store, userId, fails) ==
    LET q == {d \in DOMAIN store["study_materials"] : TRUE}
        count == SnapshotSize(GetDocs(store, "study_materials", q))
        limit == FREE_LIMITS.studyMaterials
    IN  IF "study_materials" \in fails THEN Threw(<<"study_materials">>)
        ELSE IF count >= limit
        THEN Returned([allowed |-> FALSE,
                       reason |-> <<"You've reached the free plan limit of", limit,
                                    "study materials.">>,
                       current |-> count, limit |-> limit,
                       upgradeMessage |-> "Upgrade to Starter or Pro for more materials"],
                      <<"study_materials">>)
        ELSE Returned([allowed |-> TRUE, current |-> count, limit |-> limit,
                       remaining |-> limit - count],
                      <<"study_materials">>)

checkMaterialLimit(store, userId, fails) ==
    LET q == {d \in DOMAIN store["study_materials"] : d.userId = userId}
        count == SnapshotSize(GetDocs(store, "study_materials", q))
        limit == FREE_LIMITS.studyMaterials
    IN  IF "study_materials" \in fails THEN Threw(<<"study_materials">>)
        ELSE IF count >= limit
        THEN Returned([allowed |-> FALSE,
                       reason |-> <<"You've reached the free plan limit of", limit,
                                    "study materials.">>,
                       current |-> count, limit |-> limit,
                       upgradeMessage |-> "Upgrade to Starter or Pro for more materials"],
                      <<"study_materials">>)
        ELSE Returned([allowed |-> TRUE, current |-> count, limit |-> limit,
                       remaining |-> limit - count],
                      <<"study_materials">>)

\* checkQuizLimit passing now, not monthStart, to Timestamp.fromDate
checkQuizLimit_fromNow(store, userId, now, fails) ==
    LET monthStart == NewDate(getFullYear(now), getMonth(now), 1)
        monthStartTimestamp == TimestampFromDate(now)
        q == {d \in DOMAIN store["quiz_results"] :
                 d.userId = userId /\ TimestampGE(d.completedAt, monthStartTimestamp)}
        count == SnapshotSize(GetDocs(store, "quiz_results", q))
        limit == FREE_LIMITS.quizzesPerMonth
    IN  IF "quiz_results" \in fails THEN Threw(<<"quiz_results">>)
        ELSE IF count >= limit
        THEN Returned([allowed |-> FALSE,
                       reason |-> <<"You've taken", limit,
                                    "quizzes this month (free plan limit).">>,
                       current |-> count, limit |-> limit,
                       upgradeMessage |-> "Upgrade to Starter or Pro for unlimited quizzes"],
                      <<"quiz_results">>)
        ELSE Returned([allowed |-> TRUE, current |-> count, limit |-> limit,
                       remaining |-> limit - count],
                      <<"quiz_results">>)

checkQuizLimit(store, userId, now, fails) ==
    LET monthStart == NewDate(getFullYear(now), getMonth(now), 1)
        monthStartTimestamp == TimestampFromDate(monthStart)
        q == {d \in DOMAIN store["quiz_results"] :
                 d.userId = userId /\ TimestampGE(d.completedAt, monthStartTimestamp)}
        count == SnapshotSize(GetDocs(store, "quiz_results", q))
        limit == FREE_LIMITS.quizzesPerMonth
    IN  IF "quiz_results" \in fails THEN Threw(<<"quiz_results">>)
        ELSE IF count >= limit
        THEN Returned([allowed |-> FALSE,
                       reason |-> <<"You've taken", limit,
                                    "quizzes this month (free plan limit).">>,
                       current |-> count, limit |-> limit,
                       upgradeMessage |-> "Upgrade to Starter or Pro for unlimited quizzes"],
                      <<"quiz_results">>)
        ELSE Returned([allowed |-> TRUE, current |-> count, limit |-> limit,
                       remaining |-> limit - count],
                      <<"quiz_results">>)

\* checkWritingLimit reporting remaining as if the next writing were made
checkWritingLimit_remainingAfter(store, userId, now, fails) ==
    LET todayStart == NewDate(getFullYear(now), getMonth(now), getDate(now))
        todayStartTimestamp == TimestampFromDate(todayStart)
        q == {d \in DOMAIN store["ai_writings"] :
                 d.userId = userId /\ TimestampGE(d.createdAt, todayStartTimestamp)}
        count == SnapshotSize(GetDocs(store, "ai_writings", q))
        limit == FREE_LIMITS.aiWritingsPerDay
    IN  IF "ai_writings" \in fails THEN Threw(<<"ai_writings">>)
        ELSE IF count >= limit
        THEN Returned([allowed |-> FALSE,
                       reason |-> <<"You've used your", limit,
                                    "AI writing for today (free plan limit).">>,
                       current |-> count, limit |-> limit,
                       upgradeMessage |-> "Upgrade to Starter or Pro for more writings"],
                      <<"ai_writings">>)
        ELSE Returned([allowed |-> TRUE, current |-> count, limit |-> limit,
                       remaining |-> limit - count - 1],
                      <<"ai_writings">>)

checkWritingLimit(store, userId, now, fails) ==
    LET todayStart == NewDate(getFullYear(now), getMonth(now), getDate(now))
        todayStartTimestamp == TimestampFromDate(todayStart)
        q == {d \in DOMAIN store["ai_writings"] :
                 d.userId = userId /\ TimestampGE(d.createdAt, todayStartTimestamp)}
        count == SnapshotSize(GetDocs(store, "ai_writings", q))
        limit == FREE_LIMITS.aiWritingsPerDay
    IN  IF "ai_writings" \in fails THEN Threw(<<"ai_writings">>)
        ELSE IF count >= limit
        THEN Returned([allowed |-> FALSE,
                       reason |-> <<"You've used your", limit,
                                    "AI writing for today (free plan limit).">>,
                       current |-> count, limit |-> limit,
                       upgradeMessage |-> "Upgrade to Starter or Pro for more writings"],
                      <<"ai_writings">>)
        ELSE Returned([allowed |-> TRUE, current |-> count, limit |-> limit,
                       remaining |-> limit - count],
                      <<"ai_writings">>)

\* canUserPerformAction with generate_questions falling into a counter
canUserPerformAction_gatedQuestions(store, userId, action, now, fails) ==
    LET userPlan == getUserPlan(userId)
    IN  IF userPlan # "free" THEN Returned([allowed |-> TRUE], <<>>)
        ELSE CASE action = "upload_material" -> checkMaterialLimit(store, userId, fails)
               [] action = "take_quiz" -> checkQuizLimit(store, userId, now, fails)
               [] action = "ai_writing" -> checkWritingLimit(store, userId, now, fails)
               [] action = "generate_questions" -> checkMaterialLimit(store, userId, fails)
               [] OTHER -> Returned([allowed |-> TRUE], <<>>)

canUserPerformAction(store, userId, action, now, fails) ==
    LET userPlan == getUserPlan(userId)
    IN  IF userPlan # "free" THEN Returned([allowed |-> TRUE], <<>>)
        ELSE CASE action = "upload_material" -> checkMaterialLimit(store, userId, fails)
               [] action = "take_quiz" -> checkQuizLimit(store, userId, now, fails)
               [] action = "ai_writing" -> checkWritingLimit(store, userId, now, fails)
               [] action = "generate_questions" -> Returned([allowed |-> TRUE], <<>>)
               [] OTHER -> Returned([allowed |-> TRUE], <<>>)

\* getUserUsageStats computing remaining as limit - current in every case
getUserUsageStats_rawRemaining(store, userId, now, fails) ==
    LET materialCheck == checkMaterialLimit(store, userId, fails)
        quizCheck == checkQuizLimit(store, userId, now, fails)
        writingCheck == checkWritingLimit(store, userId, now, fails)
    IN  IF materialCheck.outcome = "threw" THEN Threw(materialCheck.queries)
        ELSE IF quizCheck.outcome = "threw"
             THEN Threw(materialCheck.queries \o quizCheck.queries)
        ELSE IF writingCheck.outcome = "threw"
             THEN Threw(materialCheck.queries \o quizCheck.queries \o writingCheck.queries)
        ELSE Returned(
                 [materials |->
                     [used |-> materialCheck.value.current,
                      limit |-> materialCheck.value.limit,
                      remaining |-> materialCheck.value.limit - materialCheck.value.current],
                  quizzes |->
                     [used |-> quizCheck.value.current,
                      limit |-> quizCheck.value.limit,
                      remaining |-> quizCheck.value.limit - quizCheck.value.current],
                  writings |->
                     [used |-> writingCheck.value.current,
                      limit |-> writingCheck.value.limit,
                      remaining |-> writingCheck.value.limit - writingCheck.value.current]],
                 materialCheck.queries \o quizCheck.queries \o writingCheck.queries)

getUserUsageStats(store, userId, now, fails) ==
    LET materialCheck == checkMaterialLimit(store, userId, fails)
        quizCheck == checkQuizLimit(store, userId, now, fails)
        writingCheck == checkWritingLimit(store, userId, now, fails)
    IN  IF materialCheck.outcome = "threw" THEN Threw(materialCheck.queries)
        ELSE IF quizCheck.outcome = "threw"
             THEN Threw(materialCheck.queries \o quizCheck.queries)
        ELSE IF writingCheck.outcome = "threw"
             THEN Threw(materialCheck.queries \o quizCheck.queries \o writingCheck.queries)
        ELSE Returned(
                 [materials |->
                     [used |-> materialCheck.value.current,
                      limit |-> materialCheck.value.limit,
                      remaining |-> IF materialCheck.value.allowed
                                    THEN materialCheck.value.remaining ELSE 0],
                  quizzes |->
                     [used |-> quizCheck.value.current,
                      limit |-> quizCheck.value.limit,
                      remaining |-> IF quizCheck.value.allowed
                                    THEN quizCheck.value.remaining ELSE 0],
                  writings |->
                     [used |-> writingCheck.value.current,
                      limit |-> writingCheck.value.limit,
                      remaining |-> IF writingCheck.value.allowed
                                    THEN writingCheck.value.remaining ELSE 0]],
                 materialCheck.queries \o quizCheck.queries \o writingCheck.queries)

----------------------------------------------------------------------------
(* Callers and the database they write to *)

CollectionOf(action) ==
    CASE action = "upload_material" -> "study_materials"
      [] action = "take_quiz" -> "quiz_results"
      [] action = "ai_writing" -> "ai_writings"

GatedActions == {"upload_material", "take_quiz", "ai_writing"}

NewDocument(userId, action, now) ==
    CASE action = "upload_material" -> [userId |-> userId]
      [] action = "take_quiz" -> [userId |-> userId, completedAt |-> TimestampFromDate(now)]
      [] action = "ai_writing" -> [userId |-> userId, createdAt |-> TimestampFromDate(now)]

Copies(doc, n) == IF n = 0 THEN EmptyBag ELSE [d \in {doc} |-> n]

\* documents that exist before the first call: none, or a user with all
\* the materials allowed, one quiz left this month and a writing of an
\* earlier day, and possibly another user who has used up every quota
OwnHistory ==
    [study_materials |-> Copies(NewDocument("u1", "upload_material", 0),
                                FREE_LIMITS.studyMaterials),
     quiz_results |-> Copies(NewDocument("u1", "take_quiz", 0),
                             FREE_LIMITS.quizzesPerMonth - 1),
     ai_writings |-> Copies(NewDocument("u1", "ai_writing", 0),
                            FREE_LIMITS.aiWritingsPerDay)]

OtherHistory ==
    [study_materials |-> Copies(NewDocument("u2", "upload_material", InitClock),
                                FREE_LIMITS.studyMaterials),
     quiz_results |-> Copies(NewDocument("u2", "take_quiz", InitClock),
                             FREE_LIMITS.quizzesPerMonth),
     ai_writings |-> Copies(NewDocument("u2", "ai_writing", InitClock),
                            FREE_LIMITS.aiWritingsPerDay)]

EmptyDb == [c \in Collections |-> EmptyBag]

Merge(a, b) == [c \in Collections |-> a[c] (+) b[c]]

InitialDbs ==
    {Merge(own, other) : own \in {EmptyDb, OwnHistory}, other \in {EmptyDb, OtherHistory}}

Grant(userId, action) == [userId |-> userId, action |-> action]

NoCall == [op |-> "none"]

CallRecord(op, userId, action, now, fails, r, previous) ==
    [op |-> op, userId |-> userId, action |-> action, now |-> now, fails |-> fails,
     outcome |-> r.outcome, value |-> r.value, queries |-> r.queries,
     previous |-> previous]

\* the call right before this one, when it was the same request and nothing
\* was written in between
Previous(op, userId, action) ==
    IF last.op = op /\ last.userId = userId /\ last.action = action
    THEN [now |-> last.now, outcome |-> last.outcome, value |-> last.value]
    ELSE NoCall

Init ==
    /\ db \in InitialDbs
    /\ clock = InitClock
    /\ granted = EmptyBag
    /\ last = NoCall
    /\ commits = 0

\* a caller asks whether the user may perform the action
CanUserPerformAction(userId, action, advance, fails) ==
    /\ BagCardinality(granted) < NumSessions
    /\ clock + advance <= MaxTime
    /\ clock' = clock + advance
    /\ LET r == canUserPerformAction(db, userId, action, clock', fails)
       IN  /\ last' = CallRecord("canUserPerformAction", userId, action, clock', fails, r,
                                 Previous("canUserPerformAction", userId, action))
           /\ granted' =
                  IF r.outcome = "returned" /\ r.value.allowed /\ action \in GatedActions
                  THEN granted (+) SetToBag({Grant(userId, action)}) ELSE granted
    /\ UNCHANGED <<db, commits>>

\* a caller that was allowed creates its document
CallerCommit(g, advance) ==
    /\ BagIn(g, granted)
    /\ commits < MaxCommits
    /\ clock + advance <= MaxTime
    /\ clock' = clock + advance
    /\ LET doc == NewDocument(g.userId, g.action, clock')
           c == CollectionOf(g.action)
       IN  db' = [db EXCEPT ![c] = @ (+) SetToBag({doc})]
    /\ granted' = granted (-) SetToBag({g})
    /\ last' = NoCall
    /\ commits' = commits + 1

\* the dashboard asks for the usage of a user
GetUserUsageStats(userId, advance, fails) ==
    /\ clock + advance <= MaxTime
    /\ clock' = clock + advance
    /\ LET r == getUserUsageStats(db, userId, clock', fails)
       IN  last' = CallRecord("getUserUsageStats", userId, "none", clock', fails, r, NoCall)
    /\ UNCHANGED <<db, granted, commits>>

Next ==
    \/ \E u \in Callers, a \in Actions, d \in 0..MaxAdvance, f \in BackendStates :
          CanUserPerformAction(u, a, d, f)
    \/ \E g \in BagToSet(granted), d \in 0..MaxAdvance : CallerCommit(g, d)
    \/ \E u \in Users, d \in 0..MaxAdvance, f \in FailureSets : GetUserUsageStats(u, d, f)

Spec == Init /\ [][Next]_vars

----------------------------------------------------------------------------
(* What the properties are stated in: the documents of a user in an        *)
(* action's window, counted in milliseconds, and the quotas.               *)

RECURSIVE Tally(_, _)
Tally(bag, docs) ==
    IF docs = {} THEN 0
    ELSE LET d == CHOOSE x \in docs : TRUE
         IN  bag[d] + Tally(bag, docs \ {d})

ToMillis(ts) == ts.seconds * MsPerSec + ts.nanoseconds \div NsPerMs

MonthStartOf(now) == now - (now % MsPerMonth)
DayStartOf(now) == now - (now % MsPerDay)

WindowStartOf(action, now) ==
    CASE action = "take_quiz" -> MonthStartOf(now)
      [] action = "ai_writing" -> DayStartOf(now)
      [] OTHER -> 0

StampOf(action, doc) ==
    CASE action = "take_quiz" -> ToMillis(doc.completedAt)
      [] action = "ai_writing" -> ToMillis(doc.createdAt)

DocsOfUser(store, userId, action) ==
    {d \in DOMAIN store[CollectionOf(action)] : d.userId = userId}

WindowCount(store, userId, action, now) ==
    LET coll == store[CollectionOf(action)]
        mine == DocsOfUser(store, userId, action)
    IN  IF action = "upload_material" THEN Tally(coll, mine)
        ELSE Tally(coll, {d \in mine : StampOf(action, d) >= WindowStartOf(action, now)})

QuotaOf(action) ==
    CASE action = "upload_material" -> 3
      [] action = "take_quiz" -> 5
      [] action = "ai_writing" -> 1

LastReturned(op) == last.op = op /\ last.outcome = "returned"

LastGatedDecision ==
    /\ LastReturned("canUserPerformAction")
    /\ last.action \in GatedActions
    /\ getUserPlan(last.userId) = "free"

----------------------------------------------------------------------------
\* C1: for a free-plan user and a gated action, the decision is a denial
\* exactly when the user's documents in the action's window number at least
\* the action's limit (3 materials, 5 quizzes a month, 1 writing a day).
GatedDenyIffAtLimit ==
    LastGatedDecision =>
        (last.value.allowed = FALSE
           <=> WindowCount(db, last.userId, last.action, last.now) >= QuotaOf(last.action))

DeniedExactlyAtLimit ==
    /\ LastGatedDecision
    /\ last.value.allowed = FALSE
    /\ WindowCount(db, last.userId, last.action, last.now) = QuotaOf(last.action)

\* C2: a counter's decision reports current = the counted documents and
\* limit = the quota; when allowed, current < limit and remaining =
\* limit - current = max(limit - current, 0) >= 1; when denied, current >= limit.
CounterDecisionShape ==
    LastGatedDecision =>
        LET v == last.value
            slack == v.limit - v.current
        IN  /\ v.current = WindowCount(db, last.userId, last.action, last.now)
            /\ v.limit = QuotaOf(last.action)
            /\ v.allowed =>
                  /\ v.current < v.limit
                  /\ v.remaining = slack
                  /\ v.remaining = IF slack > 0 THEN slack ELSE 0
                  /\ v.remaining >= 1
            /\ ~v.allowed => v.current >= v.limit

AllowedWithOneRemaining ==
    /\ LastGatedDecision
    /\ last.value.allowed
    /\ last.value.remaining = 1
    /\ last.value.current >= 1

\* C4: generate_questions and every action kind that is not gated is
\* allowed with no usage metadata, whatever the database holds and whether
\* or not the backend answers; no query is issued and no limit is reported.
UngatedAlwaysAllowed ==
    (last.op = "canUserPerformAction" /\ last.action \notin GatedActions) =>
        /\ last.outcome = "returned"
        /\ last.value = [allowed |-> TRUE]
        /\ last.queries = <<>>

OverEveryQuota(userId, now) ==
    \A a \in GatedActions : WindowCount(db, userId, a, now) >= QuotaOf(a)

GenerateQuestionsWhileOverQuota ==
    /\ LastReturned("canUserPerformAction")
    /\ last.action = "generate_questions"
    /\ OverEveryQuota(last.userId, last.now)

\* C5: for take_quiz and ai_writing, the documents left out of current are
\* exactly the user's documents stamped at most one millisecond before the
\* start of the month (day) containing now; a document stamped exactly at
\* that start is counted.
WindowClosedAtStart ==
    (LastGatedDecision /\ last.action \in {"take_quiz", "ai_writing"}) =>
        LET a == last.action
            coll == db[CollectionOf(a)]
            mine == DocsOfUser(db, last.userId, a)
            start == WindowStartOf(a, last.now)
            older == {d \in mine : StampOf(a, d) <= start - 1}
            atStart == {d \in mine : StampOf(a, d) = start}
        IN  /\ last.value.current + Tally(coll, older) = Tally(coll, mine)
            /\ last.value.current >= Tally(coll, atStart)

QuizOnBothSidesOfMonthStart ==
    /\ LastGatedDecision
    /\ last.action = "take_quiz"
    /\ LET mine == DocsOfUser(db, last.userId, "take_quiz")
           start == MonthStartOf(last.now)
       IN  /\ \E d \in mine : StampOf("take_quiz", d) = start - 1
           /\ \E d \in mine : StampOf("take_quiz", d) = start
           /\ last.value.current < Tally(db.quiz_results, mine)

\* C6 as stated: a call of canUserPerformAction that repeats the call right
\* before it (same user, same action, nothing written in between) returns
\* the identical decision.
RepeatedCallIdentical ==
    (/\ LastReturned("canUserPerformAction")
     /\ last.previous # NoCall
     /\ last.previous.outcome = "returned")
        => last.value = last.previous.value

SameWindow(action, t1, t2) == WindowStartOf(action, t1) = WindowStartOf(action, t2)

\* C6 amended: the repeated call returns the identical decision when both
\* calls read the clock in the same window of the action (same calendar
\* month for take_quiz, same calendar day for ai_writing, any two instants
\* for the other actions).
RepeatedCallIdenticalInSameWindow ==
    (/\ LastReturned("canUserPerformAction")
     /\ last.previous # NoCall
     /\ last.previous.outcome = "returned"
     /\ SameWindow(last.action, last.previous.now, last.now))
        => last.value = last.previous.value

RepeatedLaterInSameWindow ==
    /\ LastGatedDecision
    /\ last.action \in {"take_quiz", "ai_writing"}
    /\ last.previous # NoCall
    /\ last.previous.outcome = "returned"
    /\ last.previous.now < last.now
    /\ SameWindow(last.action, last.previous.now, last.now)
    /\ last.value.current >= 1

\* C7: getUserUsageStats reports, for materials, quizzes and writings,
\* used = the window count, limit = the quota and remaining = limit - used
\* when used < limit, otherwise 0.
StatsMatchCounters ==
    LastReturned("getUserUsageStats") =>
        \A a \in GatedActions :
            LET e == CASE a = "upload_material" -> last.value.materials
                       [] a = "take_quiz" -> last.value.quizzes
                       [] a = "ai_writing" -> last.value.writings
            IN  /\ e.used = WindowCount(db, last.userId, a, last.now)
                /\ e.limit = QuotaOf(a)
                /\ e.remaining = IF e.used < e.limit THEN e.limit - e.used ELSE 0
                /\ e.remaining >= 0

StatsOverLimit ==
    /\ LastReturned("getUserUsageStats")
    /\ last.value.writings.used > last.value.writings.limit
    /\ last.value.writings.remaining = 0
    /\ last.value.materials.remaining >= 1

NoRepeats(seq) == \A i, j \in 1..Len(seq) : seq[i] = seq[j] => i = j

\* C8: a call in which a query fails gives back neither a decision nor
\* stats, issues the failed query once and nothing after it, grants nothing
\* and leaves the database as it was; a call that returns has had none of
\* its queries fail.
FailurePropagates ==
    [][ /\ (last'.op # "none" /\ last'.outcome = "threw") =>
              /\ "allowed" \notin DOMAIN last'.value
              /\ "materials" \notin DOMAIN last'.value
              /\ Len(last'.queries) >= 1
              /\ NoRepeats(last'.queries)
              /\ \A i \in 1..Len(last'.queries) :
                    last'.queries[i] \in last'.fails <=> i = Len(last'.queries)
              /\ db' = db
              /\ granted' = granted
        /\ (last'.op # "none" /\ last'.outcome = "returned") =>
              \A i \in 1..Len(last'.queries) : last'.queries[i] \notin last'.fails
      ]_vars

StatsFailedAtSecondQuery ==
    /\ last.op = "getUserUsageStats"
    /\ last.outcome = "threw"
    /\ last.queries = <<"study_materials", "quiz_results">>

OwnDocs(store, userId) ==
    [c \in Collections |->
        LET mine == {d \in DOMAIN store[c] : d.userId = userId}
        IN  [d \in mine |-> store[c][d]]]

\* C10: what canUserPerformAction and getUserUsageStats give back for a
\* user is what they give back on the database with every other user's
\* documents removed.
UserIsolation ==
    /\ last.op = "canUserPerformAction" =>
          LET r == canUserPerformAction(OwnDocs(db, last.userId), last.userId,
                                        last.action, last.now, last.fails)
          IN  last.outcome = r.outcome /\ last.value = r.value
    /\ last.op = "getUserUsageStats" =>
          LET r == getUserUsageStats(OwnDocs(db, last.userId), last.userId,
                                     last.now, last.fails)
          IN  last.outcome = r.outcome /\ last.value = r.value

AllowedWhileOtherUserAtLimit ==
    /\ LastGatedDecision
    /\ last.value.allowed
    /\ \E u \in Users \ {last.userId} :
          WindowCount(db, u, last.action, last.now) >= QuotaOf(last.action)

====
